---- MODULE Spec2Model ----
(***************************************************************************)
(* jquery.transitionable: the slide navigator of                           *)
(* src/jquery.transitionable.js (second definition in the file, lines      *)
(* 364-658: CSS transitions, selector argument and skip class).            *)
(*                                                                         *)
(* The container's children are numbered 0 .. n-1 in document order, as    *)
(* jQuery's .index() and .eq() number them.  A child is displayed unless   *)
(* its inline display is "none".  The class attribute of a child is kept   *)
(* as the set of its class names.                                          *)
(***************************************************************************)
EXTENDS Integers, Sequences, FiniteSets, TLC

\* ------------------------------------------------------------------ bounds
\* the largest number of children of the wrapper
MaxSlides == 3
\* the count of invocations of the probe callback stops at CountCap
CountCap  == 2

\* --------------------------------------------------------------- constants
PageClass      == "page-fab-transitionable"
SkipClass      == "skip-fab-transitionable"
HideClass      == "hide-fab-transitionable"
ShowClass      == "show-fab-transitionable"
CenterClass    == "center-fab-transitionable"
LeftClass      == "left-fab-transitionable"
RightClass     == "right-fab-transitionable"
UpClass        == "up-fab-transitionable"
DownClass      == "down-fab-transitionable"
SlideTransitionClass == "slide-transition-fab-transitionable"
FadeTransitionClass  == "fade-transition-fab-transitionable"
\* a class of the page author, usable as the selector argument ".own"
OwnClass       == "own"

\* the class names that contain pluginName ('fab-transitionable')
PluginClasses ==
    {PageClass, SkipClass, HideClass, ShowClass, CenterClass, LeftClass,
     RightClass, UpClass, DownClass, SlideTransitionClass, FadeTransitionClass}

Navigations == {"next", "prev"}
\* the effect argument or option: "none" stands for null / undefined
Effects     == {"none", "fade", "slide"}
Directions  == {"horizontal", "vertical"}
\* the selector argument: "" stands for an omitted selector
Selectors   == {"", OwnClass}
\* what a completion callback does when it is invoked: return, throw, or
\* call next / prev on the navigator before returning
Behaviours  == {"return", "throw", "next", "prev"}
\* the completion callbacks: "probe" is a function of the caller that is
\* passed to one call only, so that this call and the invocations of its
\* callback can be told from all others; "other" is any other function, or
\* $.noop when the caller passes none
Callbacks   == {"probe", "other"}

VARIABLES
    n,            \* number of children of the wrapper
    options,      \* this.options
    display,      \* inline display of each child: "" or "none"
    classes,      \* class attribute of each child, as a set
    index,        \* this.index
    earlyReturn,  \* this.earlyReturn
    handlers,     \* pending one-shot 'transitionend' handlers, oldest first
    probe,        \* the call that was passed the probe callback
    attached,     \* wrapper.data(dataKey) holds the instance
    wrapperClass, \* the wrapper carries "wrapper-fab-transitionable"
    last          \* the call just made on the plugin wrapper or to destroy

vars == <<n, options, display, classes, index, earlyReturn, handlers, probe,
          attached, wrapperClass, last>>

Children == 0 .. (n - 1)

\* ------------------------------------------------------------ jQuery helpers
Min(S) == CHOOSE x \in S : \A y \in S : x <= y
Max(S) == CHOOSE x \in S : \A y \in S : x >= y

\* elt.nextAll(): the following siblings, in document order
NextAll(i, cnt) == [k \in 1 .. (cnt - 1 - i) |-> i + k]

\* mutant of PrevAll: the preceding siblings in document order
PrevAllInDocumentOrder(i, cnt) == [k \in 1 .. i |-> k - 1]

\* elt.prevAll(): the preceding siblings, closest first
PrevAll(i, cnt) == [k \in 1 .. i |-> i - k]

\* children: all children in document order
AllChildren(cnt) == [k \in 1 .. cnt |-> k - 1]

\* .filter(selector) / nextAll(selector): keep the elements with the class
Filter(seq, cls, sel) ==
    LET Test(i) == sel \in cls[i] IN SelectSeq(seq, Test)

\* mutant of NotSkip: the skip class is not looked at
NotSkipKeepsAll(seq, cls) == seq

\* .not(".skip-fab-transitionable")
NotSkip(seq, cls) ==
    LET Test(i) == SkipClass \notin cls[i] IN SelectSeq(seq, Test)

\* mutant of LastIndex: the position in the matched set, not in the wrapper
LastIndexInSet(seq) == IF Len(seq) = 0 THEN -1 ELSE Len(seq)

\* .first().index() and .last().index(): -1 on an empty set
FirstIndex(seq) == IF Len(seq) = 0 THEN -1 ELSE seq[1]
LastIndex(seq)  == IF Len(seq) = 0 THEN -1 ELSE seq[Len(seq)]

\* _getOwnEltClasses: the classes that do not contain pluginName
GetOwnEltClasses(c) == {x \in c : x \notin PluginClasses}

\* mutant of ReturnClassFromNavigationAndDirection: opposite is ignored
ReturnClassSameSide(navigation, direction, opposite) ==
    IF direction = "horizontal" /\ navigation = "next" THEN RightClass
    ELSE IF direction = "horizontal" /\ navigation = "prev" THEN LeftClass
    ELSE IF direction = "vertical" /\ navigation = "next" THEN DownClass
    ELSE UpClass

\* _returnClassFromNavigationAndDirection
ReturnClassFromNavigationAndDirection(navigation, direction, opposite) ==
    IF direction = "horizontal" /\ navigation = "next"
    THEN (IF opposite THEN LeftClass ELSE RightClass)
    ELSE IF direction = "horizontal" /\ navigation = "prev"
    THEN (IF opposite THEN RightClass ELSE LeftClass)
    ELSE IF direction = "vertical" /\ navigation = "next"
    THEN (IF opposite THEN UpClass ELSE DownClass)
    ELSE (IF opposite THEN DownClass ELSE UpClass)

Visible(d) == {i \in DOMAIN d : d[i] # "none"}

\* ------------------------------------------------------- the working state
\* The fields of the navigator and of the DOM that a call reads and writes,
\* with the bookkeeping of the call: fired counts the beforeloop events
\* triggered, status is the return point reached, threw whether an exception
\* is propagating out of the call; count counts the invocations of the
\* probe callback and saw is what it saw in this call; start is the class
\* the slide case gives the target before the reflow.
\* What the probe callback saw when it was invoked: the number of displayed
\* children and the guard; what it did, and the return point of the next /
\* prev call it made
NotSeen == [visible |-> -1, guard |-> FALSE, does |-> "none",
            nested |-> "none"]

Start ==
    [display |-> display, classes |-> classes, index |-> index,
     earlyReturn |-> earlyReturn, handlers |-> handlers,
     fired |-> 0, status |-> "none", threw |-> FALSE,
     count |-> probe.count, saw |-> NotSeen, start |-> "none"]

\* argument checks of _navigate
ResolveEffect(effect) ==
    IF effect \in {"slide", "fade"} THEN effect ELSE options.effect

ResolveSelector(selector) ==
    IF selector = "" THEN PageClass ELSE selector

\* mutant of Arguments: a function in the selector position is not looked for
ArgumentsInOrder(effect, selector, complete) ==
    IF effect \in Callbacks
    THEN [complete |-> effect, effect |-> ResolveEffect(options.effect),
          selector |-> PageClass]
    ELSE [complete |-> IF complete \in Callbacks THEN complete ELSE "other",
          effect   |-> ResolveEffect(effect),
          selector |-> ResolveSelector(selector)]

\* "accept callback at any position in arguments list": what _navigate makes
\* of the three arguments of next / prev, each of which may be a function
\* (one of Callbacks); "none" in the last position stands for no argument,
\* which becomes $.noop
Arguments(effect, selector, complete) ==
    IF effect \in Callbacks
    THEN [complete |-> effect, effect |-> ResolveEffect(options.effect),
          selector |-> PageClass]
    ELSE IF selector \in Callbacks
    THEN [complete |-> selector, effect |-> ResolveEffect(effect),
          selector |-> PageClass]
    ELSE [complete |-> IF complete \in Callbacks THEN complete ELSE "other",
          effect   |-> ResolveEffect(effect),
          selector |-> ResolveSelector(selector)]

\* mutant of NewIndex: the loop to the first / last match forgets the skip
\* class
NewIndexLoopIgnoresSkip(cls, cur, cnt, navigation, sel) ==
    IF navigation = "next"
    THEN LET a == FirstIndex(NotSkip(Filter(NextAll(cur, cnt), cls, sel), cls))
         IN  IF a = -1
             THEN FirstIndex(Filter(AllChildren(cnt), cls, sel))
             ELSE a
    ELSE LET b == FirstIndex(NotSkip(Filter(PrevAll(cur, cnt), cls, sel), cls))
         IN  IF b = -1
             THEN LastIndex(Filter(AllChildren(cnt), cls, sel))
             ELSE b

\* the index of the element we are transitioning to, -1 if there is none
NewIndex(cls, cur, cnt, navigation, sel) ==
    IF navigation = "next"
    THEN LET a == FirstIndex(NotSkip(Filter(NextAll(cur, cnt), cls, sel), cls))
         IN  IF a = -1
             THEN FirstIndex(NotSkip(Filter(AllChildren(cnt), cls, sel), cls))
             ELSE a
    ELSE LET b == FirstIndex(NotSkip(Filter(PrevAll(cur, cnt), cls, sel), cls))
         IN  IF b = -1
             THEN LastIndex(NotSkip(Filter(AllChildren(cnt), cls, sel), cls))
             ELSE b

\* mutant of AboutToLoop: a prev that wraps is not seen as a loop
AboutToLoopNextOnly(navigation, newindex, cur) ==
    navigation = "next" /\ newindex < cur

\* "if we're about to loop"
AboutToLoop(navigation, newindex, cur) ==
    \/ navigation = "next" /\ newindex < cur
    \/ navigation = "prev" /\ newindex > cur

RECURSIVE Navigate(_, _, _, _, _, _, _)
RECURSIVE Complete(_, _, _)

\* complete(): the callback cb runs in state s and does what `does` says
Complete(s, cb, does) ==
    LET seen == IF cb = "probe"
                THEN [s EXCEPT
                        !.count = IF @ < CountCap THEN @ + 1 ELSE @,
                        !.saw = [visible |-> Cardinality(Visible(s.display)),
                                 guard   |-> s.earlyReturn,
                                 does    |-> does,
                                 nested  |-> "none"]]
                ELSE s
    IN  IF does = "throw" THEN [seen EXCEPT !.threw = TRUE]
        ELSE IF does \in Navigations
        THEN LET r == Navigate(seen, does, "none", "", "other", "return",
                               FALSE)
             IN  [r EXCEPT !.saw.nested = IF cb = "probe" THEN r.status
                                                          ELSE @,
                           !.status = s.status, !.fired = s.fired,
                           !.start = s.start]
        ELSE seen

\* mutant of HandlerBody: the target is hidden, not the outgoing element
HandlerBodyHidesTarget(s, h, does) ==
    LET hidden == [s EXCEPT !.display[h.target] = "none"]
        r      == Complete(hidden, h.complete, does)
    IN  IF r.threw \/ h.that # "this" THEN r
        ELSE [r EXCEPT !.earlyReturn = FALSE]

\* mutant of HandlerBody: the outgoing element is not hidden
HandlerBodyKeepsElt(s, h, does) ==
    LET r == Complete(s, h.complete, does)
    IN  IF r.threw \/ h.that # "this" THEN r
        ELSE [r EXCEPT !.earlyReturn = FALSE]

\* the 'transitionend' handler registered by the fade and slide cases.  Its
\* closure holds the instance that registered it (that): h.that is "this"
\* while this is still the instance the model follows, "gone" once a later
\* instance has replaced it, and then that.earlyReturn is not the guard of
\* the model.  h.destroyed tells that destroy was called while the handler
\* was pending.
HandlerBody(s, h, does) ==
    LET hidden == [s EXCEPT !.display[h.elt] = "none"]
        r      == Complete(hidden, h.complete, does)
    IN  IF r.threw \/ h.that # "this" THEN r
        ELSE [r EXCEPT !.earlyReturn = FALSE]

\* mutant of ApplyFade: the target keeps the hide class after the reflow
ApplyFadeTargetStaysHidden(s, elt, target, complete) ==
    LET ownTargetClasses == GetOwnEltClasses(s.classes[target])
        ownEltClasses    == GetOwnEltClasses(s.classes[elt])
        s1 == [s EXCEPT
                 !.classes[target] = ownTargetClasses \cup {PageClass, HideClass},
                 !.display[target] = ""]
        s3 == [s1 EXCEPT
                 !.handlers = Append(@, [target |-> target, elt |-> elt,
                                         complete |-> complete,
                                         that |-> "this",
                                         destroyed |-> FALSE])]
        s4 == [s3 EXCEPT
                 !.classes[target] = ownTargetClasses
                      \cup {PageClass, FadeTransitionClass, HideClass}]
    IN  [s4 EXCEPT
           !.classes[elt] = ownEltClasses
                \cup {PageClass, FadeTransitionClass, HideClass}]

\* case "fade"
ApplyFade(s, elt, target, complete) ==
    LET ownTargetClasses == GetOwnEltClasses(s.classes[target])
        ownEltClasses    == GetOwnEltClasses(s.classes[elt])
        s1 == [s EXCEPT
                 !.classes[target] = ownTargetClasses \cup {PageClass, HideClass},
                 !.display[target] = ""]
        s2 == [s1 EXCEPT
                 !.classes[elt] = ownEltClasses \cup {PageClass, ShowClass}]
        s3 == [s2 EXCEPT
                 !.handlers = Append(@, [target |-> target, elt |-> elt,
                                         complete |-> complete,
                                         that |-> "this",
                                         destroyed |-> FALSE])]
        s4 == [s3 EXCEPT
                 !.classes[target] = ownTargetClasses
                      \cup {PageClass, FadeTransitionClass, ShowClass}]
    IN  [s4 EXCEPT
           !.classes[elt] = ownEltClasses
                \cup {PageClass, FadeTransitionClass, HideClass}]

\* mutant of ApplySlide: the target is not displayed
ApplySlideTargetHidden(s, elt, target, navigation, complete) ==
    LET ownTargetClasses == GetOwnEltClasses(s.classes[target])
        ownEltClasses    == GetOwnEltClasses(s.classes[elt])
        s2 == [s EXCEPT
                 !.handlers = Append(@, [target |-> target, elt |-> elt,
                                         complete |-> complete,
                                         that |-> "this",
                                         destroyed |-> FALSE]),
                 !.start = ReturnClassFromNavigationAndDirection(
                               navigation, options.direction, FALSE)]
        s3 == [s2 EXCEPT
                 !.classes[target] = ownTargetClasses
                      \cup {PageClass, SlideTransitionClass, CenterClass}]
    IN  [s3 EXCEPT
           !.classes[elt] = ownEltClasses \cup {PageClass, SlideTransitionClass,
                ReturnClassFromNavigationAndDirection(
                    navigation, options.direction, TRUE)}]

\* case "slide"
ApplySlide(s, elt, target, navigation, complete) ==
    LET ownTargetClasses == GetOwnEltClasses(s.classes[target])
        ownEltClasses    == GetOwnEltClasses(s.classes[elt])
        s1 == [s EXCEPT
                 !.classes[target] = ownTargetClasses \cup {PageClass,
                      ReturnClassFromNavigationAndDirection(
                          navigation, options.direction, FALSE)},
                 !.display[target] = "",
                 !.start = ReturnClassFromNavigationAndDirection(
                               navigation, options.direction, FALSE)]
        s2 == [s1 EXCEPT
                 !.handlers = Append(@, [target |-> target, elt |-> elt,
                                         complete |-> complete,
                                         that |-> "this",
                                         destroyed |-> FALSE])]
        s3 == [s2 EXCEPT
                 !.classes[target] = ownTargetClasses
                      \cup {PageClass, SlideTransitionClass, CenterClass}]
    IN  [s3 EXCEPT
           !.classes[elt] = ownEltClasses \cup {PageClass, SlideTransitionClass,
                ReturnClassFromNavigationAndDirection(
                    navigation, options.direction, TRUE)}]

\* mutant of ApplyNone: the outgoing element is not hidden
ApplyNoneKeepsElt(s, elt, target, complete, does) ==
    LET ownTargetClasses == GetOwnEltClasses(s.classes[target])
        ownEltClasses    == GetOwnEltClasses(s.classes[elt])
        s1 == [s EXCEPT
                 !.classes[target] = ownTargetClasses \cup {PageClass},
                 !.display[target] = ""]
        s2 == [s1 EXCEPT
                 !.classes[elt] = ownEltClasses \cup {PageClass}]
        r  == Complete(s2, complete, does)
    IN  IF r.threw THEN r ELSE [r EXCEPT !.earlyReturn = FALSE]

\* mutant of ApplyNone: the guard is cleared before complete() is called
ApplyNoneClearsGuardFirst(s, elt, target, complete, does) ==
    LET ownTargetClasses == GetOwnEltClasses(s.classes[target])
        ownEltClasses    == GetOwnEltClasses(s.classes[elt])
        s1 == [s EXCEPT
                 !.classes[target] = ownTargetClasses \cup {PageClass},
                 !.display[target] = ""]
        s2 == [s1 EXCEPT
                 !.classes[elt] = ownEltClasses \cup {PageClass},
                 !.display[elt] = "none",
                 !.earlyReturn = FALSE]
    IN  Complete(s2, complete, does)

\* default: no transition, immediate hide/show
ApplyNone(s, elt, target, complete, does) ==
    LET ownTargetClasses == GetOwnEltClasses(s.classes[target])
        ownEltClasses    == GetOwnEltClasses(s.classes[elt])
        s1 == [s EXCEPT
                 !.classes[target] = ownTargetClasses \cup {PageClass},
                 !.display[target] = ""]
        s2 == [s1 EXCEPT
                 !.classes[elt] = ownEltClasses \cup {PageClass},
                 !.display[elt] = "none"]
        r  == Complete(s2, complete, does)
    IN  IF r.threw THEN r ELSE [r EXCEPT !.earlyReturn = FALSE]

\* mutant of StopRightThere: the guard is not tested
StopNever(s) == FALSE

\* "if has not finished transitioning, stop right there"
StopRightThere(s) == s.earlyReturn = TRUE

\* mutant of DoNothing: the guard is left set
DoNothingKeepsGuard(s, newindex) ==
    [s EXCEPT !.status = IF newindex = -1 THEN "nocandidate" ELSE "same"]

\* "everything is skipped or nothing is matched": do nothing
DoNothing(s, newindex) ==
    [s EXCEPT !.earlyReturn = FALSE,
              !.status = IF newindex = -1 THEN "nocandidate" ELSE "same"]

\* wrapper.trigger(beforeLoopEvent)
TriggerBeforeLoop(s) == [s EXCEPT !.fired = @ + 1]

\* the loop is refused: options.loop is false or the event was prevented
LoopRefused(cancel) == options.loop = FALSE \/ cancel

\* mutant of RefuseLoop: the guard is left set
RefuseLoopKeepsGuard(s) == [s EXCEPT !.status = "blocked"]

\* the return of a refused loop
RefuseLoop(s) == [s EXCEPT !.earlyReturn = FALSE, !.status = "blocked"]

\* _navigate(navigation, effect, selector, complete); does is what complete
\* does if this call invokes it, cancel tells whether a listener of the
\* beforeloop event prevents its default
Navigate(s, navigation, effect, selector, complete, does, cancel) ==
    IF StopRightThere(s)
    THEN [s EXCEPT !.status = "rejected"]
    ELSE
    LET s0       == [s EXCEPT !.earlyReturn = TRUE]
        elt      == s.index
        args     == Arguments(effect, selector, complete)
        eff      == args.effect
        sel      == args.selector
        newindex == NewIndex(s.classes, elt, n, navigation, sel)
    IN  IF newindex = -1 \/ newindex = s.index
        THEN DoNothing(s0, newindex)
        ELSE
        LET looping == AboutToLoop(navigation, newindex, s.index)
            s1      == IF looping THEN TriggerBeforeLoop(s0) ELSE s0
        IN  IF looping /\ LoopRefused(cancel)
            THEN RefuseLoop(s1)
            ELSE
            LET s2 == [s1 EXCEPT !.index = newindex, !.status = "accepted"]
            IN  CASE eff = "fade"  -> ApplyFade(s2, elt, newindex,
                                                args.complete)
                  [] eff = "slide" -> ApplySlide(s2, elt, newindex,
                                                 navigation, args.complete)
                  [] OTHER         -> ApplyNone(s2, elt, newindex,
                                                args.complete, does)

\* mutant of RunHandlers: the handlers stay bound (.on instead of .one)
RECURSIVE RunHandlersKeepsBound(_, _, _)
RunHandlersKeepsBound(s, hs, does) ==
    IF Len(hs) = 0 THEN s
    ELSE LET r == HandlerBody(s, Head(hs), does)
         IN  IF r.threw THEN r ELSE RunHandlersKeepsBound(r, Tail(hs), does)

\* jQuery's dispatch of one 'transitionend' event to its one-shot handlers
\* hs: each handler unbinds itself, then runs; an exception ends the dispatch
RECURSIVE RunHandlers(_, _, _)
RunHandlers(s, hs, does) ==
    IF Len(hs) = 0 THEN s
    ELSE LET h    == Head(hs)
             k    == Min({j \in DOMAIN s.handlers : s.handlers[j] = h})
             off  == [s EXCEPT !.handlers =
                         SubSeq(@, 1, k - 1) \o SubSeq(@, k + 1, Len(@))]
             r    == HandlerBody(off, h, does)
         IN  IF r.threw THEN r ELSE RunHandlers(r, Tail(hs), does)

\* ------------------------------------------------------------------ actions
\* no call was just made with the probe callback
NoCall == [nav |-> "none", sel |-> "", effect |-> "none", status |-> "none",
           fired |-> 0, prevented |-> FALSE, start |-> "none", at |-> 0]

\* the position of the probe callback among the arguments, 0 if it is not
\* passed
Position(effect, selector, complete) ==
    IF effect = "probe" THEN 1
    ELSE IF selector = "probe" THEN 2
    ELSE IF complete = "probe" THEN 3
    ELSE 0

\* write the working state back.  The call that is passed the probe
\* callback is recorded: for good whether it was accepted or declined, and
\* how often its callback was invoked; until the next step the return point
\* it reached and, if it passed the guard, its arguments, the number of
\* beforeloop events it triggered and whether a listener prevented one, and,
\* if it was accepted, the effect it applied.  What the probe callback saw
\* is kept until the next step too.  For an accepted slide the class the
\* target was given before the reflow is recorded as well, and of the
\* arguments the selector the call used and the position of the callback.
Commit(r, navigation, effect, selector, complete, cancel) ==
    /\ display' = r.display
    /\ classes' = r.classes
    /\ index' = r.index
    /\ earlyReturn' = r.earlyReturn
    /\ handlers' = r.handlers
    /\ probe' = IF Arguments(effect, selector, complete).complete = "probe"
                THEN [outcome |-> IF r.status = "accepted" THEN "accepted"
                                                          ELSE "declined",
                      count |-> r.count, saw |-> r.saw,
                      call |-> IF r.status = "rejected"
                               THEN [NoCall EXCEPT !.status = "rejected",
                                                   !.fired = r.fired]
                               ELSE [nav |-> navigation,
                                     sel |-> IF selector \in Selectors
                                                /\ effect \notin Callbacks
                                             THEN selector ELSE "",
                                     at |-> Position(effect, selector,
                                                     complete),
                                     effect |-> IF r.status = "accepted"
                                                THEN Arguments(effect,
                                                       selector,
                                                       complete).effect
                                                ELSE "none",
                                     status |-> r.status, fired |-> r.fired,
                                     prevented |-> (r.fired > 0 /\ cancel),
                                     start |-> r.start]]
                ELSE [probe EXCEPT !.count = r.count, !.saw = r.saw,
                                   !.call = NoCall]

\* no call was just made on the plugin wrapper or to destroy
NoRequest == [op |-> "none", arg |-> "", raised |-> FALSE]

\* the markup of the page before the plugin is attached: the children at
\* even positions carry the author's class, any children the skip class
Markup(cnt) ==
    {[i \in 0 .. (cnt - 1) |->
         (IF i % 2 = 0 THEN {OwnClass} ELSE {})
         \cup (IF i \in skipped THEN {SkipClass} ELSE {})] :
     skipped \in SUBSET (0 .. (cnt - 1))}

\* the options the plugin is attached with
Configurations ==
    [loop : BOOLEAN, effect : Effects, direction : Directions]

\* new Transitionable(element, options), which calls init(): every child
\* gets the page class, every child but the first is hidden
Init ==
    /\ n \in 1 .. MaxSlides
    /\ options \in Configurations
    /\ \E markup \in Markup(n) :
          classes = [i \in 0 .. (n - 1) |-> markup[i] \cup {PageClass}]
    /\ display = [i \in 0 .. (n - 1) |-> IF i = 0 THEN "" ELSE "none"]
    /\ index = 0
    /\ earlyReturn = FALSE
    /\ handlers = << >>
    /\ probe = [outcome |-> "unused", count |-> 0, saw |-> NotSeen,
                call |-> NoCall]
    /\ attached = TRUE
    /\ wrapperClass = TRUE
    /\ last = NoRequest

\* next(effect, selector, complete)
next(effect, selector, complete, does, cancel) ==
    /\ Arguments(effect, selector, complete).complete = "probe"
          => probe.outcome = "unused"
    /\ Commit(Navigate(Start, "next", effect, selector, complete, does,
                       cancel),
              "next", effect, selector, complete, cancel)
    /\ last' = NoRequest
    /\ UNCHANGED <<n, options, attached, wrapperClass>>

\* prev(effect, selector, complete)
prev(effect, selector, complete, does, cancel) ==
    /\ Arguments(effect, selector, complete).complete = "probe"
          => probe.outcome = "unused"
    /\ Commit(Navigate(Start, "prev", effect, selector, complete, does,
                       cancel),
              "prev", effect, selector, complete, cancel)
    /\ last' = NoRequest
    /\ UNCHANGED <<n, options, attached, wrapperClass>>

\* the browser delivers a 'transitionend' event to child i; does is what
\* the completion callback does if a handler invokes it
TransitionEnd(i, does) ==
    /\ LET hs == SelectSeq(handlers, LAMBDA h : h.target = i)
       IN  Commit(RunHandlers(Start, hs, does), "none", "none", "", "other",
                  FALSE)
    /\ last' = NoRequest
    /\ UNCHANGED <<n, options, attached, wrapperClass>>

\* the page author adds the skip class to child i or removes it
ToggleSkip(i) ==
    /\ classes' = [classes EXCEPT ![i] =
                      IF SkipClass \in @ THEN @ \ {SkipClass}
                                         ELSE @ \cup {SkipClass}]
    /\ probe' = [probe EXCEPT !.call = NoCall, !.saw = NotSeen]
    /\ last' = NoRequest
    /\ UNCHANGED <<n, options, display, index, earlyReturn, handlers,
                   attached, wrapperClass>>

Next ==
    \/ \E effect \in Effects, selector \in Selectors,
          complete \in Callbacks, does \in Behaviours, cancel \in BOOLEAN :
          next(effect, selector, complete, does, cancel)
    \/ \E effect \in Effects, selector \in Selectors,
          complete \in Callbacks, does \in Behaviours, cancel \in BOOLEAN :
          prev(effect, selector, complete, does, cancel)
    \/ \E i \in Children, does \in Behaviours : TransitionEnd(i, does)
    \/ \E i \in Children : ToggleSkip(i)

Spec == Init /\ [][Next]_vars

\* every started transition eventually delivers its 'transitionend' event
Delivery == \E i \in Children, does \in Behaviours : TransitionEnd(i, does)

FairSpec == Spec /\ WF_vars(Delivery)

TypeOK ==
    /\ n \in 1 .. MaxSlides
    /\ index \in Children
    /\ earlyReturn \in BOOLEAN
    /\ \A i \in Children : display[i] \in {"", "none"}

\* ---------------------------------------------------------------- lifecycle
\* the most handlers that may be pending when a new instance is created
MaxPending == 1
\* the largest number of children of the wrapper when the lifecycle of the
\* plugin is followed
LifeSlides == 2

\* var defaults
Defaults == [loop |-> TRUE, effect |-> "none", direction |-> "horizontal"]

\* the options objects passed to the plugin wrapper, merged with the
\* defaults: "zoom" and "diagonal" stand for unsupported values
Requests ==
    [loop : BOOLEAN, effect : Effects \cup {"zoom"},
     direction : Directions \cup {"diagonal"}]

\* mutant of Valid: the effect option is not checked
ValidDirectionOnly(config) ==
    config.direction \in {"horizontal", "vertical"}

\* the checks of the constructor: FALSE when it throws
Valid(config) ==
    /\ config.direction \in {"horizontal", "vertical"}
    /\ config.effect \in {"slide", "fade", "none"}

\* the names passed to the plugin wrapper as a string, and what plugin[name]
\* is: next, prev and destroy are methods of the prototype, toString is
\* inherited from Object.prototype, index is a field, goto is undefined
Names == {"next", "prev", "destroy", "toString", "index", "goto"}

\* plugin[options] is falsy: 'Unkown method' is thrown
Unknown(name) == name = "goto" \/ (name = "index" /\ index = 0)

\* plugin[options] is truthy but has no apply(): a TypeError is thrown
NotCallable(name) == name = "index" /\ index # 0

\* the classes removed by destroy
DestroyedClasses ==
    {PageClass, HideClass, ShowClass, CenterClass, LeftClass, RightClass,
     UpClass, DownClass, SlideTransitionClass, FadeTransitionClass}

\* new Transitionable(wrapper, config) for a config that passes the checks,
\* init() and wrapper.data(dataKey, plugin): the model follows the new
\* instance from now on; the closures of the handlers still pending hold
\* the instance it replaces
Construct(config) ==
    /\ Len(handlers) <= MaxPending
    /\ options' = config
    /\ wrapperClass' = TRUE
    /\ index' = 0
    /\ earlyReturn' = FALSE
    /\ classes' = [i \in Children |-> classes[i] \cup {PageClass}]
    /\ display' = [i \in Children |-> IF i = 0 THEN display[i] ELSE "none"]
    /\ attached' = TRUE
    /\ handlers' = [k \in DOMAIN handlers |->
                       [handlers[k] EXCEPT !.that = "gone"]]
    /\ probe' = [probe EXCEPT !.call = NoCall, !.saw = NotSeen]
    /\ UNCHANGED n

\* mutant of Destroyed: the inline display of the children is not reset
DestroyedKeepsDisplay ==
    /\ attached' = FALSE
    /\ wrapperClass' = FALSE
    /\ classes' = [i \in Children |-> classes[i] \ DestroyedClasses]
    /\ handlers' = [k \in DOMAIN handlers |->
                       [handlers[k] EXCEPT !.destroyed = TRUE]]
    /\ probe' = [probe EXCEPT !.call = NoCall, !.saw = NotSeen]
    /\ UNCHANGED <<n, options, index, earlyReturn, display>>

\* the body of destroy; the handlers bound with .one() stay bound
Destroyed ==
    /\ attached' = FALSE
    /\ wrapperClass' = FALSE
    /\ display' = [i \in Children |-> ""]
    /\ classes' = [i \in Children |-> classes[i] \ DestroyedClasses]
    /\ handlers' = [k \in DOMAIN handlers |->
                       [handlers[k] EXCEPT !.destroyed = TRUE]]
    /\ probe' = [probe EXCEPT !.call = NoCall, !.saw = NotSeen]
    /\ UNCHANGED <<n, options, index, earlyReturn>>

\* nothing but the record of the call changes
Untouched ==
    UNCHANGED <<n, options, display, classes, index, earlyReturn, handlers,
                probe, attached, wrapperClass>>

\* destroy()
destroy ==
    /\ Destroyed
    /\ last' = [op |-> "destroy", arg |-> "", raised |-> FALSE]

\* mutant of TransitionableOptions: an instance is created although the
\* wrapper holds one
TransitionableOptionsAlwaysNew(config) ==
    /\ IF Valid(config) THEN Construct(config) ELSE Untouched
    /\ last' = [op |-> "attach",
                arg |-> IF attached THEN ""
                        ELSE IF config.effect \in Effects
                                /\ config.direction \in Directions
                        THEN "valid" ELSE "invalid",
                raised |-> ~Valid(config)]

\* $(wrapper).transitionable(config) with an options object
TransitionableOptions(config) ==
    /\ IF attached THEN Untouched
       ELSE IF Valid(config) THEN Construct(config)
       ELSE Untouched
    /\ last' = [op |-> "attach",
                arg |-> IF attached THEN ""
                        ELSE IF config.effect \in Effects
                                /\ config.direction \in Directions
                        THEN "valid" ELSE "invalid",
                raised |-> ~attached /\ ~Valid(config)]

\* $(wrapper).transitionable(name, effect, selector, complete) with a string:
\* without an instance the string is taken as the options, and $.extend
\* copies no option from it.  A call that reaches next, prev or destroy is
\* recorded as a call of that method.
TransitionableMethod(name, effect, selector, does, cancel) ==
    IF ~attached
    THEN /\ Construct(Defaults)
         /\ last' = [op |-> "invoke", arg |-> name, raised |-> FALSE]
    ELSE IF Unknown(name) \/ NotCallable(name)
    THEN /\ Untouched
         /\ last' = [op |-> "invoke", arg |-> name, raised |-> TRUE]
    ELSE IF name = "toString"
    THEN /\ Untouched
         /\ last' = [op |-> "invoke", arg |-> name, raised |-> FALSE]
    ELSE IF name = "destroy" THEN destroy
    ELSE /\ Commit(Navigate(Start, name, effect, selector, "other", does,
                            cancel),
                   name, effect, selector, "other", cancel)
         /\ last' = NoRequest
         /\ UNCHANGED <<n, options, attached, wrapperClass>>

\* the lifecycle is followed on a page without skip classes, and next and
\* prev are called on the instance the wrapper holds
LifeInit ==
    /\ Init
    /\ n <= LifeSlides
    /\ \A i \in Children : SkipClass \notin classes[i]

LifeNext ==
    \/ \E effect \in Effects, selector \in Selectors,
          complete \in Callbacks, does \in Behaviours, cancel \in BOOLEAN :
          attached /\ next(effect, selector, complete, does, cancel)
    \/ \E effect \in Effects, selector \in Selectors,
          complete \in Callbacks, does \in Behaviours, cancel \in BOOLEAN :
          attached /\ prev(effect, selector, complete, does, cancel)
    \/ \E i \in Children, does \in Behaviours : TransitionEnd(i, does)
    \/ destroy
    \/ \E config \in Requests : TransitionableOptions(config)
    \/ \E name \in Names, effect \in Effects, does \in Behaviours :
          TransitionableMethod(name, effect, "", does, FALSE)

LifeSpec == LifeInit /\ [][LifeNext]_vars

\* the caller also keeps the instance it was returned and calls next and
\* prev on it after destroy has removed it from the wrapper
RetainNext ==
    \/ LifeNext
    \/ \E effect \in Effects, selector \in Selectors,
          complete \in Callbacks, does \in Behaviours, cancel \in BOOLEAN :
          ~attached /\ next(effect, selector, complete, does, cancel)
    \/ \E effect \in Effects, selector \in Selectors,
          complete \in Callbacks, does \in Behaviours, cancel \in BOOLEAN :
          ~attached /\ prev(effect, selector, complete, does, cancel)

RetainSpec == LifeInit /\ [][RetainNext]_vars

\* ------------------------------------------- the jQuery-animation revision
\* The revision of the plugin that animates with jQuery (fadeIn / fadeOut /
\* animate) and has neither classes, nor a selector, nor a guard flag.  It is
\* modelled over the same variables: handlers holds the running animations
\* of a transition, classes and earlyReturn are never written.  The 'left'
\* offsets it sets are styling only and are left out; the callbacks return.

\* elt.is(":animated"): an animation is running on child i
Animated(i) ==
    \E k \in DOMAIN handlers : handlers[k].target = i \/ handlers[k].elt = i

\* effect = effect || this.options.effect
AnimEffect(effect) == IF effect = "none" THEN options.effect ELSE effect

\* the navigation is about to loop
AnimLoop(direction) ==
    \/ direction = "next" /\ index = n - 1
    \/ direction = "prev" /\ index = 0

\* the index of the element we are transitioning to
AnimTarget(direction) ==
    IF direction = "next" THEN (index + 1) % n
    ELSE IF index = 0 THEN n - 1 ELSE index - 1

\* the return point _navigate reaches
AnimStatus(direction, cancel) ==
    IF Animated(index) THEN "rejected"
    ELSE IF AnimLoop(direction) /\ (~options.loop \/ cancel) THEN "blocked"
    ELSE "accepted"

\* _navigate(direction, effect, complete); cancel says whether a beforeloop
\* listener prevents the default.  fade and slide show the target and start
\* the animations, whose end hides the current element and calls complete;
\* any other effect shows the target and hides the current element at once
AnimNavigate(direction, effect, complete, cancel) ==
    LET status == AnimStatus(direction, cancel)
        eff    == AnimEffect(effect)
        elt    == index
        target == AnimTarget(direction)
        fired  == IF ~Animated(index) /\ AnimLoop(direction) THEN 1 ELSE 0
    IN  /\ IF status = "accepted"
           THEN /\ index' = target
                /\ IF eff \in {"fade", "slide"}
                   THEN /\ display' = [display EXCEPT ![target] = ""]
                        /\ handlers' = Append(handlers,
                              [target |-> target, elt |-> elt,
                               complete |-> complete, that |-> "this",
                               destroyed |-> FALSE])
                   ELSE /\ display' = [[display EXCEPT ![target] = ""]
                                          EXCEPT ![elt] = "none"]
                        /\ handlers' = handlers
           ELSE UNCHANGED <<index, display, handlers>>
        /\ probe' = IF complete = "probe"
                    THEN [outcome |-> IF status = "accepted" THEN "accepted"
                                                            ELSE "declined",
                          count |-> 0, saw |-> NotSeen,
                          call |-> IF status = "rejected"
                                   THEN [NoCall EXCEPT !.status = "rejected"]
                                   ELSE [NoCall EXCEPT
                                           !.nav = direction,
                                           !.effect = IF status = "accepted"
                                                      THEN eff ELSE "none",
                                           !.status = status,
                                           !.fired = fired,
                                           !.prevented = cancel]]
                    ELSE [probe EXCEPT !.call = NoCall, !.saw = NotSeen]
        /\ last' = NoRequest
        /\ UNCHANGED <<n, options, classes, earlyReturn, attached,
                       wrapperClass>>

\* next(effect, complete)
nextAnimated(effect, complete, cancel) ==
    /\ complete = "probe" => probe.outcome = "unused"
    /\ AnimNavigate("next", effect, complete, cancel)

\* prev(effect, complete)
prevAnimated(effect, complete, cancel) ==
    /\ complete = "probe" => probe.outcome = "unused"
    /\ AnimNavigate("prev", effect, complete, cancel)

\* the animations of the running transition end: the element that was
\* current is hidden and complete is called
AnimationDone ==
    /\ handlers # << >>
    /\ LET h == Head(handlers)
       IN  /\ display' = [display EXCEPT ![h.elt] = "none"]
           /\ probe' = [probe EXCEPT
                          !.count = IF h.complete = "probe" THEN @ + 1 ELSE @,
                          !.call = NoCall, !.saw = NotSeen]
    /\ handlers' = Tail(handlers)
    /\ last' = NoRequest
    /\ UNCHANGED <<n, options, classes, index, earlyReturn, attached,
                   wrapperClass>>

\* new Transitionable(element, options), which calls init(): every child
\* but the first is hidden, no class is given to a child
AnimInit ==
    /\ n \in 1 .. MaxSlides
    /\ options \in Configurations
    /\ classes = [i \in 0 .. (n - 1) |->
                     IF i % 2 = 0 THEN {OwnClass} ELSE {}]
    /\ display = [i \in 0 .. (n - 1) |-> IF i = 0 THEN "" ELSE "none"]
    /\ index = 0
    /\ earlyReturn = FALSE
    /\ handlers = << >>
    /\ probe = [outcome |-> "unused", count |-> 0, saw |-> NotSeen,
                call |-> NoCall]
    /\ attached = TRUE
    /\ wrapperClass = TRUE
    /\ last = NoRequest

AnimStep ==
    \/ \E effect \in Effects, complete \in Callbacks, cancel \in BOOLEAN :
          nextAnimated(effect, complete, cancel)
    \/ \E effect \in Effects, complete \in Callbacks, cancel \in BOOLEAN :
          prevAnimated(effect, complete, cancel)
    \/ AnimationDone

AnimSpec == AnimInit /\ [][AnimStep]_vars

\* ------------------------------------- the selector-less CSS revision
\* The first definition of the plugin in jquery.transitionable.js: CSS
\* transitions as in the later one, but no selector and no skip class; the
\* target is always the next / previous child, wrapping around.  Its fade,
\* slide and default cases and its 'transitionend' handlers are those of the
\* later definition (show() / hide() for css("display", ...)).  The callbacks
\* return or throw.

\* what a completion callback does in this revision
FirstBehaviours == {"return", "throw"}

\* "if we're about to loop"
FirstAboutToLoop(navigation, cur) ==
    \/ navigation = "next" /\ cur = n - 1
    \/ navigation = "prev" /\ cur = 0

\* "calculate the index of the element we are transitioning to"
FirstNewIndex(navigation, cur) ==
    IF navigation = "next" THEN (cur + 1) % n
    ELSE IF cur = 0 THEN n - 1 ELSE cur - 1

\* the return of a refused loop: the guard is left as it is
FirstRefuseLoop(s) == [s EXCEPT !.status = "blocked"]

\* _navigate(navigation, effect, complete)
FirstNavigate(s, navigation, effect, complete, does, cancel) ==
    IF StopRightThere(s)
    THEN [s EXCEPT !.status = "rejected"]
    ELSE
    LET s0      == [s EXCEPT !.earlyReturn = TRUE]
        elt     == s.index
        eff     == ResolveEffect(effect)
        looping == FirstAboutToLoop(navigation, s.index)
        s1      == IF looping THEN TriggerBeforeLoop(s0) ELSE s0
    IN  IF looping /\ LoopRefused(cancel)
        THEN FirstRefuseLoop(s1)
        ELSE
        LET newindex == FirstNewIndex(navigation, s.index)
            s2 == [s1 EXCEPT !.index = newindex, !.status = "accepted"]
        IN  CASE eff = "fade"  -> ApplyFade(s2, elt, newindex, complete)
              [] eff = "slide" -> ApplySlide(s2, elt, newindex, navigation,
                                             complete)
              [] OTHER         -> ApplyNone(s2, elt, newindex, complete, does)

\* next(effect, complete)
firstNext(effect, complete, does, cancel) ==
    /\ complete = "probe" => probe.outcome = "unused"
    /\ Commit(FirstNavigate(Start, "next", effect, complete, does, cancel),
              "next", effect, "", complete, cancel)
    /\ last' = NoRequest
    /\ UNCHANGED <<n, options, attached, wrapperClass>>

\* prev(effect, complete)
firstPrev(effect, complete, does, cancel) ==
    /\ complete = "probe" => probe.outcome = "unused"
    /\ Commit(FirstNavigate(Start, "prev", effect, complete, does, cancel),
              "prev", effect, "", complete, cancel)
    /\ last' = NoRequest
    /\ UNCHANGED <<n, options, attached, wrapperClass>>

\* new Transitionable(element, options), which calls init(): as in the later
\* definition; no child carries the skip class, which this one does not know
FirstInit == Init /\ \A i \in Children : SkipClass \notin classes[i]

FirstStep ==
    \/ \E effect \in Effects, complete \in Callbacks,
          does \in FirstBehaviours, cancel \in BOOLEAN :
          firstNext(effect, complete, does, cancel)
    \/ \E effect \in Effects, complete \in Callbacks,
          does \in FirstBehaviours, cancel \in BOOLEAN :
          firstPrev(effect, complete, does, cancel)
    \/ \E i \in Children, does \in FirstBehaviours : TransitionEnd(i, does)

FirstSpec == FirstInit /\ [][FirstStep]_vars

\* ----------------------------------------------- callback at any position
\* the largest number of children of the wrapper when the callback is
\* passed at any position
ArgSlides == 2

\* what may be passed in the effect, selector and complete positions
ArgEffects   == Effects \cup Callbacks
ArgSelectors == Selectors \cup Callbacks
ArgCompletes == Callbacks \cup {"none"}

ArgInit == Init /\ n <= ArgSlides

ArgNext ==
    \/ \E effect \in ArgEffects, selector \in ArgSelectors,
          complete \in ArgCompletes, does \in Behaviours, cancel \in BOOLEAN :
          next(effect, selector, complete, does, cancel)
    \/ \E effect \in ArgEffects, selector \in ArgSelectors,
          complete \in ArgCompletes, does \in Behaviours, cancel \in BOOLEAN :
          prev(effect, selector, complete, does, cancel)
    \/ \E i \in Children, does \in Behaviours : TransitionEnd(i, does)
    \/ \E i \in Children : ToggleSkip(i)

ArgSpec == ArgInit /\ [][ArgNext]_vars

\* ------------------------------------------------------ what the claims use
\* the navigator is Idle when the guard flag is false
Idle == earlyReturn = FALSE

\* the step at which the call that is passed the probe callback is made; the
\* probe callback may be passed to any call, so what holds of this step
\* holds of every next / prev call
ProbeCall == probe.outcome = "unused" /\ probe'.outcome # "unused"

\* the probe call passed the guard
ProbeCallIdle == ProbeCall /\ Idle

\* a handler that will invoke the probe callback is pending
ProbePending == \E k \in DOMAIN handlers : handlers[k].complete = "probe"

\* the candidates of a navigation: the children that match the selector and
\* do not carry the skip marker
Candidates(selector) ==
    {j \in Children :
        /\ (IF selector = "" THEN PageClass ELSE selector) \in classes[j]
        /\ SkipClass \notin classes[j]}

\* the target of a navigation from cur among the candidates C, -1 if none
Target(navigation, cur, C) ==
    IF C = {} THEN -1
    ELSE IF navigation = "next"
    THEN (IF \E j \in C : j > cur THEN Min({j \in C : j > cur}) ELSE Min(C))
    ELSE (IF \E j \in C : j < cur THEN Max({j \in C : j < cur}) ELSE Max(C))

\* the navigation wraps around to a target different from the current slide
Wraps(navigation, cur, target) ==
    /\ target # -1
    /\ \/ navigation = "next" /\ target < cur
       \/ navigation = "prev" /\ target > cur

\* ------------------------------------------------------------------ claims
\* C1: whenever the guard flag is false (Idle), exactly one slide is
\* visible, after any sequence of next / prev calls and transition-end events.
C1_OneVisibleWhenIdle ==
    Idle => Cardinality(Visible(display)) = 1

\* C1 witness: the navigator is Idle again after a fade that moved it away
\* from the first slide
C1_Witness ==
    /\ Idle
    /\ index # 0
    /\ FadeTransitionClass \in classes[index]
    /\ Cardinality(Visible(display)) = 1

\* C2: a next / prev call made while the guard is set is dropped: it leaves
\* currentIndex, every slide's visibility and markers, the pending handlers
\* and the guard unchanged, emits no beforeloop event, and its callback is
\* not invoked, neither by the call nor at any later step.
C2_CallWhileTransitioningIsDropped ==
    [][/\ (ProbeCall /\ ~Idle) =>
            /\ index' = index
            /\ display' = display
            /\ classes' = classes
            /\ handlers' = handlers
            /\ earlyReturn' = earlyReturn
            /\ probe'.call.status = "rejected"
            /\ probe'.call.fired = 0
            /\ probe'.outcome = "declined"
       /\ probe'.outcome = "declined" => probe'.count = 0]_vars

\* C2 witness: a call was just rejected while a transition is pending
C2_Witness ==
    /\ probe.call.status = "rejected"
    /\ ~Idle
    /\ Len(handlers) = 1
    /\ probe.count = 0

\* C3: an accepted next moves currentIndex to the smallest candidate index
\* above it, or else to the smallest candidate index; an accepted prev to the
\* largest candidate index below it, or else to the largest candidate index.
C3_TargetIsNearestCandidate ==
    [][ProbeCall /\ probe'.call.status = "accepted" =>
          index' = Target(probe'.call.nav, index,
                          Candidates(probe'.call.sel))]_vars

\* C3 witness: with 3 unmarked slides and loop enabled, a next from the last
\* slide was accepted and wrapped to index 0
C3_Witness ==
    /\ n = 3
    /\ options.loop
    /\ \A i \in Children : SkipClass \notin classes[i]
    /\ probe.call.status = "accepted"
    /\ probe.call.nav = "next"
    /\ probe.call.sel = ""
    /\ probe.call.fired = 1
    /\ index = 0

\* C4: a call emits the beforeloop event once if it is made in Idle and
\* resolves to a wrap-around target different from the current slide, also
\* when loop is false, and not at all otherwise.
C4_BeforeLoopExactlyOnWrap ==
    [][ProbeCall =>
          probe'.call.fired =
             IF /\ Idle
                /\ LET t == Target(probe'.call.nav, index,
                                   Candidates(probe'.call.sel))
                   IN  t # index /\ Wraps(probe'.call.nav, index, t)
             THEN 1 ELSE 0]_vars

\* C4 witness: a wrapping prev emitted the event although loop is false
C4_Witness ==
    /\ options.loop = FALSE
    /\ probe.call.nav = "prev"
    /\ probe.call.fired = 1

\* C5: a call that would wrap around while loop is false or the beforeloop
\* event is prevented changes neither currentIndex nor any slide's
\* visibility, does not invoke or register its callback and leaves the
\* navigator Idle; and a call made in Idle whose target exists, differs from
\* the current slide and does not wrap is accepted.
C5_RefusedLoopIsNoOp ==
    [][ProbeCallIdle =>
          LET t == Target(probe'.call.nav, index, Candidates(probe'.call.sel))
          IN  /\ (/\ Wraps(probe'.call.nav, index, t)
                  /\ (options.loop = FALSE \/ probe'.call.prevented)) =>
                     /\ index' = index
                     /\ display' = display
                     /\ probe'.count = 0
                     /\ handlers' = handlers
                     /\ earlyReturn' = FALSE
              /\ (t \notin {-1, index} /\ ~Wraps(probe'.call.nav, index, t))
                     => probe'.call.status = "accepted"]_vars

\* C5 witness: loop is enabled, a listener prevented the beforeloop event
\* and the call returned with the navigator Idle
C5_Witness ==
    /\ options.loop
    /\ probe.call.status = "blocked"
    /\ probe.call.prevented
    /\ Idle

\* C6, as claimed: a call never selects as its target, and never changes the
\* visibility of, a slide that carries the skip marker when the call is made.
C6_Original ==
    [][ProbeCall =>
          \A i \in Children :
             SkipClass \in classes[i] =>
                /\ probe'.call.status = "accepted" => index' # i
                /\ display'[i] = display[i]]_vars

\* C6, amended: a call never selects as its target, and never changes the
\* visibility of, a slide other than the current one that carries the skip
\* marker when the call is made.
C6_SkipMarkedOthersUntouched ==
    [][ProbeCall =>
          \A i \in Children \ {index} :
             SkipClass \in classes[i] =>
                /\ index' # i
                /\ display'[i] = display[i]]_vars

\* C6 witness: an accepted next went from slide 0 to slide 2 across the
\* skip-marked slide 1, which is still hidden
C6_Witness ==
    /\ n = 3
    /\ probe.call.status = "accepted"
    /\ probe.call.nav = "next"
    /\ probe.call.fired = 0
    /\ index = 2
    /\ SkipClass \in classes[1]
    /\ display[1] = "none"

\* C7, as claimed: in every reachable state, the state after init included,
\* the slide at currentIndex is not skip-marked if some slide is not.
C7_Original ==
    (\E i \in Children : SkipClass \notin classes[i])
        => SkipClass \notin classes[index]

\* C7, amended: every accepted navigation moves currentIndex to a slide
\* that is not skip-marked, and once the slide at currentIndex is not
\* skip-marked this stays so across every step that adds no skip marker.
C7_AcceptedTargetNotSkipMarked ==
    [][/\ (ProbeCall /\ probe'.call.status = "accepted") =>
             /\ SkipClass \notin classes[index']
             /\ SkipClass \notin classes'[index']
       /\ (/\ \A i \in Children :
                 SkipClass \in classes'[i] => SkipClass \in classes[i]
           /\ SkipClass \notin classes[index])
             => SkipClass \notin classes'[index']]_vars

\* C7 witness: a navigation was accepted while another slide is skip-marked
C7_Witness ==
    /\ probe.call.status = "accepted"
    /\ SkipClass \notin classes[index]
    /\ \E i \in Children \ {index} : SkipClass \in classes[i]

\* C8: the callback of an accepted navigation has been invoked exactly once
\* as soon as the navigation is complete, not before and never again; while
\* it is pending, its handler waits on the target slide; the callback of a
\* rejected or no-op navigation is never invoked nor bound.
C8_CallbackExactlyOnce ==
    /\ probe.outcome \in {"unused", "declined"} =>
          probe.count = 0 /\ ~ProbePending
    /\ probe.outcome = "accepted" =>
          probe.count = IF ProbePending THEN 0 ELSE 1
    /\ \A k \in DOMAIN handlers :
          handlers[k].complete = "probe" =>
             /\ handlers[k].target = index
             /\ \A j \in DOMAIN handlers :
                   handlers[j].complete = "probe" => j = k

\* C8 witness: a transition-end event has just invoked the callback of an
\* accepted fade or slide navigation
C8_Witness ==
    /\ probe.outcome = "accepted"
    /\ probe.call = NoCall
    /\ probe.saw # NotSeen
    /\ probe.count = 1

\* C9: when the callback of an accepted navigation is invoked the outgoing
\* slide is already hidden (one slide is visible) and the guard is still
\* set, so that a next / prev call made by the callback is rejected; the
\* guard stays set from the acceptance to the invocation and is cleared when
\* the callback returns.
C9_HideThenCallbackThenClear ==
    [][/\ probe'.count # probe.count =>
             /\ probe'.saw.visible = 1
             /\ probe'.saw.guard = TRUE
             /\ probe'.saw.does \in Navigations =>
                   probe'.saw.nested = "rejected"
             /\ probe'.saw.does # "throw" => earlyReturn' = FALSE
       /\ (probe'.outcome = "accepted" /\ probe'.count = 0)
             => earlyReturn' = TRUE]_vars

\* C9 witness: the callback called next / prev and the call was rejected
C9_Witness ==
    /\ probe.count = 1
    /\ probe.saw.does \in Navigations
    /\ probe.saw.nested = "rejected"
    /\ probe.saw.visible = 1
    /\ probe.saw.guard = TRUE
    /\ Idle

\* C10, as claimed: an accepted fade / slide navigation moves the navigator
\* from Idle to Transitioning, it leaves Transitioning only by the delivery
\* of the transition-end event, and, every started transition delivering its
\* event, Transitioning is always followed by Idle.
C10_TransitioningLeadsToIdle ==
    /\ [][/\ (/\ ProbeCall
              /\ probe'.call.status = "accepted"
              /\ probe'.call.effect \in {"fade", "slide"})
                => Idle /\ ~Idle'
          /\ (~Idle /\ handlers # << >> /\ Idle') => handlers' # handlers]_vars
    /\ (~Idle /\ handlers # << >>) ~> Idle

\* a transition-end event is delivered to handlers that were all pending
\* when destroy was called
DestroyedDelivery ==
    /\ handlers # << >>
    /\ \A k \in DOMAIN handlers : handlers[k].destroyed
    /\ Len(handlers') < Len(handlers)

\* C11, as claimed: a transition-end event delivered after destroy was
\* called during the transition changes no slide's visibility, does not
\* invoke the callback, and a navigator attached in the meantime still has
\* exactly its current slide visible when it is Idle.
C11_EventAfterDestroyIgnored ==
    [][DestroyedDelivery =>
          /\ display' = display
          /\ probe'.count = probe.count
          /\ (attached /\ Idle /\ Visible(display) = {index}) =>
                Visible(display') = {index'}]_vars

\* the state of a new instance: index 0, guard false, the first child shown
\* and the others hidden, the wrapper class on the wrapper, the page class
\* and no other class of the plugin but the author's skip class on every child
Fresh ==
    /\ attached'
    /\ wrapperClass'
    /\ index' = 0
    /\ earlyReturn' = FALSE
    /\ Visible(display') = {0}
    /\ \A i \in Children :
          /\ PageClass \in classes'[i]
          /\ classes'[i] \cap PluginClasses \subseteq {PageClass, SkipClass}

\* C12: destroy called in Idle removes the instance association, the wrapper
\* class and every class destroy lists from every slide, and shows every
\* slide; a following attach with valid options creates an instance with
\* index 0, guard false, only the first slide shown and only the wrapper and
\* page classes.
C12_DestroyThenAttachIsFresh ==
    [][/\ (Idle /\ last'.op = "destroy") =>
             /\ ~attached'
             /\ ~wrapperClass'
             /\ \A i \in Children :
                   /\ classes'[i] \cap DestroyedClasses = {}
                   /\ display'[i] = ""
       /\ (Idle /\ last.op = "destroy" /\ last'.op = "attach"
              /\ last'.arg = "valid") => Fresh]_vars

\* C12 witness: an instance was destroyed and the wrapper attached again
\* with options other than the defaults
C12_Witness ==
    /\ last.op = "attach"
    /\ last.arg = "valid"
    /\ attached
    /\ options.effect = "slide"
    /\ index = 0
    /\ Visible(display) = {0}

\* C13: attaching to a wrapper that holds an instance raises no error and
\* changes nothing: index, guard, options, the display and classes of the
\* slides, the pending handlers and the instance association stay as they
\* are, whatever options are passed, Idle or Transitioning.
C13_AttachTwiceChangesNothing ==
    [][(attached /\ last'.op = "attach") =>
          /\ ~last'.raised
          /\ UNCHANGED <<n, options, display, classes, index, earlyReturn,
                         handlers, attached, wrapperClass>>]_vars

\* C13 witness: the wrapper was attached again during a transition
C13_Witness ==
    /\ last.op = "attach"
    /\ last.arg = ""
    /\ ~Idle
    /\ handlers # << >>
    /\ index # 0

\* C14: attaching a wrapper that holds no instance with an unsupported
\* effect or direction raises an error and stores no instance, adds no class
\* and hides no slide; attaching it with supported options raises no error
\* and creates an instance at index 0.
C14_InvalidOptionsRaise ==
    [][/\ (~attached /\ last'.op = "attach" /\ last'.arg = "invalid") =>
             /\ last'.raised
             /\ UNCHANGED <<n, options, display, classes, index, earlyReturn,
                            handlers, attached, wrapperClass>>
       /\ (~attached /\ last'.op = "attach" /\ last'.arg = "valid") =>
             /\ ~last'.raised
             /\ attached'
             /\ index' = 0
             /\ earlyReturn' = FALSE
             /\ options' \in Configurations]_vars

\* C14 witness: an attach has just raised and no slide is hidden
C14_Witness ==
    /\ last.op = "attach"
    /\ last.raised
    /\ ~attached
    /\ ~wrapperClass
    /\ \A i \in Children : display[i] = "" /\ PageClass \notin classes[i]

\* C15, as claimed: passing the wrapper a name that is not a method of the
\* navigator raises an error and leaves index, guard, the display of the
\* slides and the instance association unchanged, with or without an
\* instance.
C15_UnknownMethodRaises ==
    [][(last'.op = "invoke" /\ last'.arg \in {"goto", "index"}) =>
          /\ last'.raised
          /\ UNCHANGED <<display, index, earlyReturn, attached>>]_vars

\* the other direction
Opposite(navigation) == IF navigation = "next" THEN "prev" ELSE "next"

\* the call r has returned and the transition it started, if any, completes:
\* the transition-end event is delivered to the target
Completed(r, does) ==
    RunHandlers([r EXCEPT !.threw = FALSE],
                SelectSeq(r.handlers, LAMBDA h : h.target = r.index), does)

\* currentIndex after a navigation without selector, its completion, and a
\* navigation without selector in the other direction, no listener
\* preventing the beforeloop event
RoundTrip(navigation, effect, does, back) ==
    LET there == Navigate(Start, navigation, effect, "", "other", does, FALSE)
        done  == Completed(there, does)
    IN  Navigate([done EXCEPT !.threw = FALSE, !.status = "none"],
                 Opposite(navigation), back, "", "other", "return",
                 FALSE).index

\* C16, as claimed: from an Idle state whose current slide is not
\* skip-marked, with loop enabled, next followed after its completion by
\* prev, and prev followed by next, leave currentIndex at its value before
\* the first call.
C16_NextThenPrevRestoresIndex ==
    (attached /\ Idle /\ options.loop /\ SkipClass \notin classes[index]) =>
        \A navigation \in Navigations, effect \in Effects,
           does \in Behaviours, back \in Effects :
           RoundTrip(navigation, effect, does, back) = index

\* C17: a call made in Idle whose candidate set is empty or whose target is
\* the current slide changes neither currentIndex nor any slide's display or
\* classes, emits no beforeloop event, neither invokes nor binds its
\* callback, and returns with the guard false.
C17_NoTargetIsNoOp ==
    [][(/\ ProbeCallIdle
        /\ Target(probe'.call.nav, index, Candidates(probe'.call.sel))
              \in {-1, index}) =>
          /\ UNCHANGED <<index, display, classes, handlers>>
          /\ probe'.call.status \in {"nocandidate", "same"}
          /\ probe'.call.fired = 0
          /\ probe'.count = 0
          /\ probe'.outcome = "declined"
          /\ earlyReturn' = FALSE]_vars

\* C17 witness: with 3 slides the current slide is the only candidate, and
\* the call has returned without moving
C17_Witness ==
    /\ n = 3
    /\ probe.call.status = "same"
    /\ probe.call.sel = ""
    /\ index = 1
    /\ Idle

\* the off-screen classes
SideClasses == {LeftClass, RightClass, UpClass, DownClass}

\* C18: an accepted slide navigation places the target on one side before
\* the reflow and leaves the outgoing slide on the opposite side of the same
\* axis: horizontal next right / left, horizontal prev left / right,
\* vertical next down / up, vertical prev up / down; the target ends with
\* the center class and no side class.
C18_SlideSides ==
    [][(/\ ProbeCall
        /\ probe'.call.status = "accepted"
        /\ probe'.call.effect = "slide") =>
          LET sides ==
                 IF options.direction = "horizontal"
                 THEN (IF probe'.call.nav = "next"
                       THEN <<RightClass, LeftClass>>
                       ELSE <<LeftClass, RightClass>>)
                 ELSE (IF probe'.call.nav = "next"
                       THEN <<DownClass, UpClass>>
                       ELSE <<UpClass, DownClass>>)
          IN  /\ probe'.call.start = sides[1]
              /\ classes'[index] \cap SideClasses = {sides[2]}
              /\ classes'[index'] \cap SideClasses = {}
              /\ CenterClass \in classes'[index']
              /\ CenterClass \notin classes'[index]]_vars

\* C18 witness: a vertical prev slide was accepted, the target came from up
C18_Witness ==
    /\ options.direction = "vertical"
    /\ probe.call.status = "accepted"
    /\ probe.call.effect = "slide"
    /\ probe.call.nav = "prev"
    /\ probe.call.start = UpClass
    /\ CenterClass \in classes[index]

\* C19: when an accepted navigation whose resolved effect is none returns,
\* the target is the only visible slide, the callback has been invoked
\* exactly once, the guard is false and no handler was bound.
C19_NoneCompletesSynchronously ==
    [][(/\ ProbeCall
        /\ probe'.call.status = "accepted"
        /\ probe'.call.effect = "none"
        /\ probe'.saw.does # "throw") =>
          /\ Visible(display') = {index'}
          /\ index' # index
          /\ probe'.count = 1
          /\ earlyReturn' = FALSE
          /\ handlers' = handlers]_vars

\* C19 witness: a navigation without effect has returned, its callback was
\* invoked and nothing is pending
C19_Witness ==
    /\ probe.call.status = "accepted"
    /\ probe.call.effect = "none"
    /\ probe.saw.does = "return"
    /\ probe.count = 1
    /\ handlers = << >>
    /\ Idle
    /\ Visible(display) = {index}

\* C20: 0 <= currentIndex <= n - 1 in every reachable state.
C20_IndexInRange ==
    0 <= index /\ index <= n - 1

\* C20 witness: a prev from the first of 3 slides wrapped to the last one
C20_Witness ==
    /\ n = 3
    /\ probe.call.status = "accepted"
    /\ probe.call.nav = "prev"
    /\ probe.call.fired = 1
    /\ index = n - 1

\* C22: a function in the effect or selector position is taken as the
\* callback, and the selector is then every managed slide; the effect
\* applied is the call's if it is fade or slide, the configured one
\* otherwise; a missing selector means every managed slide.  So the callback
\* of an accepted navigation, passed at any position, has been invoked once
\* when the navigation is complete and not before.
C22_CallbackAtAnyPosition ==
    /\ \A cb \in Callbacks, e \in Effects, sel \in Selectors,
          x \in ArgSelectors, y \in ArgCompletes :
          LET applied == IF e \in {"fade", "slide"} THEN e
                                                     ELSE options.effect
          IN  /\ Arguments(cb, x, y) =
                    [complete |-> cb, effect |-> options.effect,
                     selector |-> PageClass]
              /\ Arguments(e, cb, y) =
                    [complete |-> cb, effect |-> applied,
                     selector |-> PageClass]
              /\ Arguments(e, sel, cb) =
                    [complete |-> cb, effect |-> applied,
                     selector |-> IF sel = "" THEN PageClass ELSE sel]
    /\ (probe.call.status = "accepted" /\ probe.call.at = 1) =>
          probe.call.effect = options.effect
    /\ probe.outcome = "accepted" =>
          probe.count = IF ProbePending THEN 0 ELSE 1

\* C22 witness: next(cb) or prev(cb) with the fade effect configured was
\* accepted and cb waits for the transition-end event
C22_Witness ==
    /\ probe.call.at = 1
    /\ probe.call.status = "accepted"
    /\ probe.call.effect = "fade"
    /\ ProbePending
    /\ probe.count = 0

\* C23: whenever the navigator is Idle, the visible slide is exactly the
\* slide at currentIndex.
C23_VisibleIsCurrent ==
    Idle => Visible(display) = {index}

\* C23 witness: after navigations that moved away from the first slide, a
\* call that would loop was refused and the current slide is the one shown
C23_Witness ==
    /\ Idle
    /\ n = 3
    /\ index = 2
    /\ probe.call.status = "blocked"
    /\ Visible(display) = {2}

\* C24, as claimed: no next / prev call adds or removes a skip marker, on
\* the outgoing slide or any other.
C24_SkipMarkersKept ==
    [][ProbeCall =>
          \A i \in Children :
             (SkipClass \in classes'[i]) = (SkipClass \in classes[i])]_vars

\* C25, as claimed: when the completion callback raises an error the guard
\* flag is cleared all the same.
C25_ThrowingCallbackReturnsToIdle ==
    [][(probe'.count # probe.count /\ probe'.saw.does = "throw")
          => earlyReturn' = FALSE]_vars

\* a fade or slide transition is in flight: the guard is set and the
\* handler of the transition-end event is pending
Transitioning == ~Idle /\ handlers # << >>

\* C26: while a fade or slide transition is in flight exactly two slides
\* are visible, the outgoing slide and the target, which is the slide at
\* currentIndex; every other slide is hidden.
C26_TwoVisibleWhileTransitioning ==
    Transitioning =>
        /\ Len(handlers) = 1
        /\ handlers[1].target = index
        /\ handlers[1].elt # index
        /\ Visible(display) = {handlers[1].elt, index}

\* C26 witness: a slide transition between two of 3 slides is in flight
C26_Witness ==
    /\ Transitioning
    /\ n = 3
    /\ SlideTransitionClass \in classes[index]
    /\ Cardinality(Visible(display)) = 2
    /\ Cardinality(Children \ Visible(display)) = 1

\* the zero-opacity class and the off-screen classes
AwayClasses == {HideClass} \cup SideClasses

\* C27: whenever the navigator is Idle, no visible slide carries the hide
\* class or a side class; such classes only remain on hidden slides.
C27_VisibleHasNoStaleMarker ==
    Idle => \A i \in Visible(display) : classes[i] \cap AwayClasses = {}

\* C27 witness: Idle after a fade and a slide, a hidden slide still carries
\* the hide class and another a side class
C27_Witness ==
    /\ Idle
    /\ n = 3
    /\ Visible(display) = {index}
    /\ \E i, j \in Children \ {index} :
          /\ HideClass \in classes[i]
          /\ classes[j] \cap SideClasses # {}

\* C28, as claimed: a next / prev call on the instance after destroy has
\* removed it from the wrapper changes no slide's display or classes and
\* does not invoke the callback.
C28_RetainedHandleIsInert ==
    [][(ProbeCall /\ ~attached) =>
          /\ display' = display
          /\ classes' = classes
          /\ probe'.count = 0]_vars

\* C21, as claimed: in the jQuery-animation revision the callback passed to
\* an accepted next / prev has been executed once the transition is
\* complete, whatever the effect.
C21_CallbackRunsOnCompletion ==
    (probe.outcome = "accepted" /\ ~ProbePending) => probe.count = 1

\* the return point a call without callback in the direction opposite to the
\* recorded call reaches in the selector-less CSS revision
FollowingOpposite ==
    FirstNavigate(Start, Opposite(probe.call.nav), "none", "other", "return",
                  FALSE).status

\* C29, as claimed: in the selector-less CSS revision, with more than one
\* slide, a next / prev call refused because it would loop leaves the guard
\* flag false, and a following call in the opposite direction is accepted.
C29_RefusedLoopKeepsNavigating ==
    [][(ProbeCall /\ n > 1 /\ probe'.call.status = "blocked") =>
          /\ earlyReturn' = FALSE
          /\ FollowingOpposite' = "accepted"]_vars

====
